---- MODULE Spec2Model ----
(***************************************************************************)
(* Model of the 1D Schrodinger solver toolkit: the finite-element Grid     *)
(* (src/src/fem.py), the helpers time_it, normalise and scope_roots        *)
(* (src/src/tools.py).                                                     *)
(*                                                                         *)
(* Floating-point numbers are modelled as exact rationals <<n, d>> in      *)
(* lowest terms with d > 0, extended with the IEEE specials the code can   *)
(* produce: <<1, 0>> is +inf, <<-1, 0>> is -inf, <<0, 0>> is NaN.          *)
(***************************************************************************)
EXTENDS Integers, Sequences, FiniteSets, TLC

VARIABLES
    gpc,          \* Grid: "off" | "new" (before __init__) | "ready" | "raised"
    points,       \* Grid: the argument given to Grid(points)
    self_points,  \* Grid: the field self.points
    gerr,         \* Grid: the exception __init__ raised, or "none"
    first,        \* Grid: per method and argument, the matrix its first call returned
    last,         \* Grid: the latest method call, its result and numpy's warnings
    tpc,          \* time_it: "off" | "ready" | "done"
    tcall,        \* time_it: the wrapped function and the arguments of the call
    tlog,         \* time_it: the argument lists func was invoked with
    tout,         \* time_it: what the wrapper gave its caller, and what it printed
    npc,          \* normalise: "off" | "ready" | "done"
    nargs,        \* normalise: the arguments (state, xs) as passed
    narr,         \* normalise: the contents of the caller's state array
    nresult,      \* normalise: the returned array
    spc,          \* scope_roots: "off" | "ready" | "done"
    sargs,        \* scope_roots: the arguments (func, x0, max_iters)
    sresult       \* scope_roots: the outcome of the call

gvars == <<gpc, points, self_points, gerr, first, last>>
tvars == <<tpc, tcall, tlog, tout>>
nvars == <<npc, nargs, narr, nresult>>
svars == <<spc, sargs, sresult>>
vars == <<gvars, tvars, nvars, svars>>

----------------------------------------------------------------------------
(* Bounds of the model. *)

\* Grid(points): at most this many points ...
GridMaxLen == 4
\* ... each an integer in 0..MaxCoord.
MaxCoord == 3

----------------------------------------------------------------------------
(* Arithmetic on floats, as extended rationals. *)

Abs(x) == IF x < 0 THEN -x ELSE x

Sign(x) == IF x < 0 THEN -1 ELSE IF x > 0 THEN 1 ELSE 0

RECURSIVE Gcd(_, _)
Gcd(a, b) == IF b = 0 THEN a ELSE Gcd(b, a % b)

\* The float n/d: lowest terms, positive denominator; n/0 is +-inf or NaN.
Norm(n, d) ==
    IF d = 0 THEN <<Sign(n), 0>>
    ELSE LET g == Gcd(Abs(n), Abs(d))
         IN  <<Sign(d) * (n \div g), Abs(d) \div g>>

Rat(k) == <<k, 1>>

Zero == <<0, 1>>

NaN == <<0, 0>>

IsFinite(a) == a[2] # 0

\* a + b; inf + (-inf) and anything with NaN are NaN.
RAdd(a, b) ==
    IF IsFinite(a) /\ IsFinite(b) THEN Norm(a[1] * b[2] + b[1] * a[2], a[2] * b[2])
    ELSE IF IsFinite(b) THEN a
    ELSE IF IsFinite(a) THEN b
    ELSE IF a = b THEN a ELSE NaN

\* a * b; 0 * inf is NaN.
RMul(a, b) == Norm(a[1] * b[1], a[2] * b[2])

\* 1 / a; numpy's 1/0 is +inf (with a "divide by zero" RuntimeWarning).
RInv(a) == IF a[1] < 0 THEN <<-a[2], -a[1]>> ELSE <<a[2], a[1]>>

\* a / b
RDiv(a, b) == RMul(a, RInv(b))

RNeg(a) == <<-a[1], a[2]>>

RSub(a, b) == RAdd(a, RNeg(b))

\* a < b, for finite a and b
RLess(a, b) == a[1] * b[2] < b[1] * a[2]

RAbs(a) == <<Abs(a[1]), a[2]>>

----------------------------------------------------------------------------
(* Grid: src/src/fem.py *)

\* points[i], 0-based as in the source
Pt(pts, i) == pts[i + 1]

\* np.any((points[1:] - points[:-1]) < 0.0), with <= in place of <
NotStrictlySorted(pts) == \E i \in 0 .. Len(pts) - 2 : Pt(pts, i + 1) - Pt(pts, i) <= 0

\* np.any((points[1:] - points[:-1]) < 0.0)
NotSorted(pts) == \E i \in 0 .. Len(pts) - 2 : Pt(pts, i + 1) - Pt(pts, i) < 0

\* len(self)
GridLen(pts) == Len(pts)

\* sp.dok_matrix((r, r)): an all-zero r x r matrix, indexed from 0
DokMatrix(r) == [ij \in (0 .. r - 1) \X (0 .. r - 1) |-> Zero]

\* What a method hands back: a matrix, or the ValueError scipy raises for the
\* negative shape (n - 2, n - 2) of a grid of fewer than two points.
Returned(m, w) == [raised |-> "none", matrice |-> m, warnings |-> w]

ShapeError == [raised |-> "ValueError", matrice |-> << >>, warnings |-> {}]

NoResult == [raised |-> "nocall", matrice |-> << >>, warnings |-> {}]

(* matrice_masse_interne *)

MasseDiagValeurSixth(pts, site) == RDiv(Rat(Pt(pts, site + 1) - Pt(pts, site - 1)), Rat(6))

\* (self.points[site + 1] - self.points[site - 1]) / 3.0
MasseDiagValeur(pts, site) == RDiv(Rat(Pt(pts, site + 1) - Pt(pts, site - 1)), Rat(3))

\* (self.points[site + 1] - self.points[site]) / 6.0
MasseValeur(pts, site) == RDiv(Rat(Pt(pts, site + 1) - Pt(pts, site)), Rat(6))

\* for site in range(1, n - 1): matrice[site - 1, site - 1] = ...
RECURSIVE MasseDiag(_, _, _)
MasseDiag(pts, matrice, site) ==
    IF site >= GridLen(pts) - 1 THEN matrice
    ELSE MasseDiag(pts,
                   [matrice EXCEPT ![<<site - 1, site - 1>>] = MasseDiagValeur(pts, site)],
                   site + 1)

\* for site in range(1, n - 2): matrice[site - 1, site] = matrice[site, site - 1] = valeur
RECURSIVE MasseHorsDiag(_, _, _)
MasseHorsDiag(pts, matrice, site) ==
    IF site >= GridLen(pts) - 2 THEN matrice
    ELSE LET valeur == MasseValeur(pts, site)
         IN  MasseHorsDiag(pts,
                           [matrice EXCEPT ![<<site - 1, site>>] = valeur,
                                           ![<<site, site - 1>>] = valeur],
                           site + 1)

\* A one-slot cache shared by the methods: whatever was returned last.
MasseCached(pts) ==
    IF last.key # "none" THEN last.result
    ELSE IF GridLen(pts) < 2 THEN ShapeError
    ELSE Returned(MasseHorsDiag(pts, MasseDiag(pts, DokMatrix(GridLen(pts) - 2), 1), 1), {})

matrice_masse_interne(pts) ==
    LET n == GridLen(pts)
    IN  IF n < 2 THEN ShapeError
        ELSE Returned(MasseHorsDiag(pts, MasseDiag(pts, DokMatrix(n - 2), 1), 1), {})

(* matrice_laplacienne_interne *)

\* 1.0 / (self.points[i] - self.points[i + 1])
LapTerme(pts, i) == RDiv(Rat(1), Rat(Pt(pts, i) - Pt(pts, i + 1)))

LapDiagValeurPos(pts, site) ==
    RAdd(RDiv(Rat(1), Rat(Pt(pts, site) - Pt(pts, site - 1))),
         RDiv(Rat(1), Rat(Pt(pts, site + 1) - Pt(pts, site))))

\* sum(1.0 / (self.points[i] - self.points[i + 1]) for i in [site - 1, site])
LapDiagValeur(pts, site) == RAdd(RAdd(Zero, LapTerme(pts, site - 1)), LapTerme(pts, site))

\* 1.0 / (self.points[site + 1] - self.points[site])
LapValeur(pts, site) == RDiv(Rat(1), Rat(Pt(pts, site + 1) - Pt(pts, site)))

RECURSIVE LapDiag(_, _, _)
LapDiag(pts, matrice, site) ==
    IF site >= GridLen(pts) - 1 THEN matrice
    ELSE LapDiag(pts,
                 [matrice EXCEPT ![<<site - 1, site - 1>>] = LapDiagValeur(pts, site)],
                 site + 1)

RECURSIVE LapHorsDiag(_, _, _)
LapHorsDiag(pts, matrice, site) ==
    IF site >= GridLen(pts) - 2 THEN matrice
    ELSE LET valeur == LapValeur(pts, site)
         IN  LapHorsDiag(pts,
                         [matrice EXCEPT ![<<site - 1, site>>] = valeur,
                                         ![<<site, site - 1>>] = valeur],
                         site + 1)

\* The denominators the two loops divide by, in the order they are evaluated.
LapDenominators(pts) ==
    LET n == GridLen(pts)
    IN  {Pt(pts, i) - Pt(pts, i + 1) : i \in UNION {{site - 1, site} : site \in 1 .. n - 2}}
        \cup {Pt(pts, site + 1) - Pt(pts, site) : site \in 1 .. n - 3}

\* numpy's RuntimeWarning for a float division by zero
LapWarnings(pts) == IF 0 \in LapDenominators(pts) THEN {"divide by zero"} ELSE {}

matrice_laplacienne_interne(pts) ==
    LET n == GridLen(pts)
    IN  IF n < 2 THEN ShapeError
        ELSE Returned(LapHorsDiag(pts, LapDiag(pts, DokMatrix(n - 2), 1), 1), LapWarnings(pts))

(* matrice_potentiel *)

\* The potentials the repository's tests pass in.
Potentials == {"x2", "sqr_potential"}

\* lambda x: x**2 (tests/test_grid.py) and sqr_potential(x) = x * x/2
\* (tests/test_shrodinger.py)
Potentiel(p, x) ==
    IF p = "x2" THEN RMul(x, x)
    ELSE RDiv(RMul(x, x), Rat(2))

\* pente_pos(x, site): the ramp rising from points[site - 1] to points[site]
pente_pos(pts, x, site) ==
    LET num == RSub(x, Rat(Pt(pts, site - 1)))
        denom == Rat(Pt(pts, site) - Pt(pts, site - 1))
    IN  RDiv(num, denom)

\* pente_neg(x, site): the ramp falling from points[site] to points[site + 1]
pente_neg(pts, x, site) ==
    LET num == RSub(Rat(Pt(pts, site + 1)), x)
        denom == Rat(Pt(pts, site + 1) - Pt(pts, site))
    IN  RDiv(num, denom)

\* lambda x: potentiel(x) * pente_pos(x, site)**2
IntegrandPos(p, pts, site, x) ==
    LET pos == pente_pos(pts, x, site) IN RMul(Potentiel(p, x), RMul(pos, pos))

\* lambda x: potentiel(x) * pente_neg(x, site)**2
IntegrandNeg(p, pts, site, x) ==
    LET neg == pente_neg(pts, x, site) IN RMul(Potentiel(p, x), RMul(neg, neg))

\* lambda x: (potentiel(x) * pente_pos(x, site + 1) * pente_neg(x, site))
IntegrandHorsDiag(p, pts, site, x) ==
    RMul(RMul(Potentiel(p, x), pente_pos(pts, x, site + 1)), pente_neg(pts, x, site))

\* The lambda handed to integrate.quad, by the entry it is for.
Integrand(f, p, pts, site, x) ==
    IF f = "valeur_pos" THEN IntegrandPos(p, pts, site, x)
    ELSE IF f = "valeur_neg" THEN IntegrandNeg(p, pts, site, x)
    ELSE IntegrandHorsDiag(p, pts, site, x)

\* integrate.quad(f, a, b)[0]: a quadrature that evaluates f at nodes of
\* [a, b] and is exact on the polynomials of degree <= 5 (Boole's rule; every
\* integrand here is a polynomial of degree 4).
Quad(f, p, pts, site, a, b) ==
    LET h == b - a
        node(k) == Norm(4 * a + k * h, 4)
        s0 == RMul(Rat(7), Integrand(f, p, pts, site, node(0)))
        s1 == RAdd(s0, RMul(Rat(32), Integrand(f, p, pts, site, node(1))))
        s2 == RAdd(s1, RMul(Rat(12), Integrand(f, p, pts, site, node(2))))
        s3 == RAdd(s2, RMul(Rat(32), Integrand(f, p, pts, site, node(3))))
        s4 == RAdd(s3, RMul(Rat(7), Integrand(f, p, pts, site, node(4))))
    IN  RMul(Norm(h, 90), s4)

PotDiagValeurPosOnly(p, pts, site) ==
    Quad("valeur_pos", p, pts, site, Pt(pts, site - 1), Pt(pts, site))

\* valeur_pos + valeur_neg
PotDiagValeur(p, pts, site) ==
    LET valeur_pos == Quad("valeur_pos", p, pts, site, Pt(pts, site - 1), Pt(pts, site))
        valeur_neg == Quad("valeur_neg", p, pts, site, Pt(pts, site), Pt(pts, site + 1))
    IN  RAdd(valeur_pos, valeur_neg)

\* valeur = integrate.quad(..., self.points[site], self.points[site + 1])[0]
PotValeur(p, pts, site) ==
    Quad("valeur", p, pts, site, Pt(pts, site), Pt(pts, site + 1))

RECURSIVE PotDiag(_, _, _, _)
PotDiag(p, pts, matrice, site) ==
    IF site >= GridLen(pts) - 1 THEN matrice
    ELSE PotDiag(p, pts,
                 [matrice EXCEPT ![<<site - 1, site - 1>>] = PotDiagValeur(p, pts, site)],
                 site + 1)

RECURSIVE PotHorsDiag(_, _, _, _)
PotHorsDiag(p, pts, matrice, site) ==
    IF site >= GridLen(pts) - 2 THEN matrice
    ELSE LET valeur == PotValeur(p, pts, site)
         IN  PotHorsDiag(p, pts,
                         [matrice EXCEPT ![<<site - 1, site>>] = valeur,
                                         ![<<site, site - 1>>] = valeur],
                         site + 1)

\* numpy's RuntimeWarning for the 0/0 of a ramp over two equal points
PotWarnings(pts) ==
    IF \E site \in 1 .. GridLen(pts) - 2 :
           Pt(pts, site) = Pt(pts, site - 1) \/ Pt(pts, site + 1) = Pt(pts, site)
    THEN {"invalid value"} ELSE {}

matrice_potentiel(pts, p) ==
    LET n == GridLen(pts)
    IN  IF n < 2 THEN ShapeError
        ELSE Returned(PotHorsDiag(p, pts, PotDiag(p, pts, DokMatrix(n - 2), 1), 1),
                      PotWarnings(pts))

(* The Grid object and its callers *)

Keys == {"masse", "laplacienne"} \cup Potentials

NoCall == [key |-> "none", result |-> NoResult, again |-> FALSE]

\* np.arange(5), the grid of tests/test_grid.py
TestPoints == <<0, 1, 2, 3, 4>>

\* Sequences of at most n points
SeqUpTo(S, n) == UNION {[1 .. k -> S] : k \in 0 .. n}

GridOff ==
    /\ gpc = "off"
    /\ points = << >>
    /\ self_points = << >>
    /\ gerr = "none"
    /\ first = [k \in Keys |-> NoResult]
    /\ last = NoCall

GridStart ==
    /\ gpc = "new"
    /\ points \in SeqUpTo(0 .. MaxCoord, GridMaxLen) \cup {TestPoints}
    /\ self_points = << >>
    /\ gerr = "none"
    /\ first = [k \in Keys |-> NoResult]
    /\ last = NoCall

\* Grid.__init__
GridInit ==
    /\ gpc = "new"
    /\ IF NotSorted(points)
       THEN /\ gpc' = "raised"
            /\ gerr' = "ValueError"
            /\ UNCHANGED self_points
       ELSE /\ gpc' = "ready"
            /\ self_points' = points
            /\ UNCHANGED gerr
    /\ UNCHANGED <<points, first, last>>
    /\ UNCHANGED <<tvars, nvars, svars>>

\* The caller keeps what a method returned.
Record(key, r) ==
    /\ last' = [key |-> key, result |-> r, again |-> first[key] # NoResult]
    /\ first' = IF first[key] = NoResult THEN [first EXCEPT ![key] = r] ELSE first
    /\ UNCHANGED <<gpc, points, self_points, gerr>>
    /\ UNCHANGED <<tvars, nvars, svars>>

CallMasse ==
    /\ gpc = "ready"
    /\ Record("masse", matrice_masse_interne(self_points))

CallLaplacienne ==
    /\ gpc = "ready"
    /\ Record("laplacienne", matrice_laplacienne_interne(self_points))

CallPotentiel ==
    /\ gpc = "ready"
    /\ \E p \in Potentials : Record(p, matrice_potentiel(self_points, p))

----------------------------------------------------------------------------
(* time_it: src/src/tools.py *)

\* A call passes at most TMaxArgs positional arguments, each in 0..TMaxVal ...
TMaxArgs == 3
TMaxVal == 1
\* ... and time.perf_counter() reads a clock value in 0..MaxClock.
MaxClock == 1

\* The functions the wrapper is applied to: the two decorated solvers and a
\* function that returns, quadratic of tests/test_root_scope.py.
Funcs == {"solve_shrodinger_using_fem", "solve_shrodinger_using_shooting", "quadratic"}

\* The parameters of each function's signature (none has a default).
Params(f) ==
    IF f = "quadratic" THEN <<"x">>
    ELSE IF f = "solve_shrodinger_using_fem" THEN <<"potential", "points", "n_states">>
    ELSE <<"potential", "domain", "n_states">>

\* Python values: an int, or None
PyInt(v) == [type |-> "int", val |-> v]

NoneValue == [type |-> "NoneType", val |-> 0]

Raise(e) == [kind |-> "raise", error |-> e, value |-> NoneValue]

Return(v) == [kind |-> "return", error |-> "none", value |-> v]

\* Python binds *args and **kwargs to the parameters: a TypeError when there
\* are too many positionals, an unknown or doubly bound keyword, or a
\* parameter left unbound.
BindsOk(f, args, kwargs) ==
    LET ps == Params(f)
        named == {ps[i] : i \in 1 .. Len(ps)}
        byPos == {ps[i] : i \in 1 .. (IF Len(args) < Len(ps) THEN Len(args) ELSE Len(ps))}
    IN  /\ Len(args) <= Len(ps)
        /\ DOMAIN kwargs \subseteq named \ byPos
        /\ byPos \cup DOMAIN kwargs = named

\* func(*args, **kwargs): the solvers' bodies raise NotImplementedError
\* (fem.py, shooting.py); quadratic returns x**2 - 1.
Apply(f, args, kwargs) ==
    IF ~BindsOk(f, args, kwargs) THEN Raise("TypeError")
    ELSE IF f = "quadratic"
         THEN LET x == IF Len(args) = 1 THEN args[1] ELSE kwargs["x"]
              IN  Return(PyInt(x * x - 1))
         ELSE Raise("NotImplementedError")

\* Keyword arguments: a function from some of the names to values.
KwArgs == UNION {[K -> 0 .. TMaxVal] : K \in SUBSET {"x"}}

WrapperReturnsNone(result) == NoneValue

\* return result
WrapperReturn(result) == result

TimeItOff == tpc = "off" /\ tcall = << >> /\ tlog = << >> /\ tout = << >>

TimeItStart ==
    /\ tpc = "ready"
    /\ tcall \in [func : Funcs, args : SeqUpTo(0 .. TMaxVal, TMaxArgs), kwargs : KwArgs]
    /\ tlog = << >>
    /\ tout = << >>

\* time_it_wrapper(*args, **kwargs)
TimeItWrapper ==
    /\ tpc = "ready"
    /\ \E start_time \in 0 .. MaxClock, end_time \in 0 .. MaxClock :
          /\ start_time <= end_time
          /\ LET out == Apply(tcall.func, tcall.args, tcall.kwargs)
                 total_time == end_time - start_time
             IN  /\ tlog' = Append(tlog, [args |-> tcall.args, kwargs |-> tcall.kwargs,
                                          outcome |-> out])
                 /\ tout' = IF out.kind = "raise"
                            THEN [kind |-> "raise", error |-> out.error, value |-> NoneValue,
                                  printed |-> << >>]
                            ELSE [kind |-> "return", error |-> "none",
                                  value |-> WrapperReturn(out.value),
                                  printed |-> <<[name |-> tcall.func, took |-> total_time]>>]
    /\ tpc' = "done"
    /\ UNCHANGED tcall
    /\ UNCHANGED <<gvars, nvars, svars>>

----------------------------------------------------------------------------
(* normalise: src/src/tools.py *)

\* state and xs hold at most NMaxLen entries; state's are integers in
\* -NMaxVal..NMaxVal, xs's are integers in 0..NMaxX, in non-decreasing order.
NMaxLen == 3
NMaxVal == 1
NMaxX == 2

\* A float of the form s * sqrt(q), q a non-negative float: its sign and its
\* square.
SqrtVal(s, q) == [sign |-> s, sq |-> q]

\* np.sqrt(area), area >= 0
NpSqrt(a) == SqrtVal(Sign(a[1]), a)

\* x / r for a float x and r = sqrt(q); x/0 is +-inf, 0/0 is NaN
DivBySqrt(x, r) == SqrtVal(Sign(x[1]) * (IF r.sign = 0 THEN 1 ELSE r.sign),
                           RDiv(RMul(x, x), r.sq))

\* xs[1:] - xs[:-1]
Dxs(xs) == [i \in 1 .. Len(xs) - 1 |-> Rat(xs[i + 1] - xs[i])]

\* state * state
Temp(state) == [i \in 1 .. Len(state) |-> Rat(state[i] * state[i])]

AreasNoHalf(temp, dxs) ==
    [i \in 1 .. Len(dxs) |-> RMul(RAdd(temp[i], temp[i + 1]), dxs[i])]

\* 1/2 * (temp[:-1] + temp[1:])*dxs
Areas(temp, dxs) ==
    [i \in 1 .. Len(dxs) |-> RMul(RMul(<<1, 2>>, RAdd(temp[i], temp[i + 1])), dxs[i])]

\* area.sum()
RECURSIVE ArraySum(_)
ArraySum(a) == IF Len(a) = 0 THEN Zero ELSE RAdd(ArraySum(SubSeq(a, 1, Len(a) - 1)), a[Len(a)])

\* normalise(state, xs)
normalise(state, xs) ==
    LET dxs == Dxs(xs)
        temp == Temp(state)
        area == ArraySum(Areas(temp, dxs))
    IN  [i \in 1 .. Len(state) |-> DivBySqrt(Rat(state[i]), NpSqrt(area))]

SortedSeqs(S, n) == {xs \in [1 .. n -> S] : \A i \in 1 .. n - 1 : xs[i] <= xs[i + 1]}

NormOff == npc = "off" /\ nargs = << >> /\ narr = << >> /\ nresult = << >>

NormStart ==
    /\ npc = "ready"
    /\ \E n \in 0 .. NMaxLen :
          nargs \in [state : [1 .. n -> -NMaxVal .. NMaxVal], xs : SortedSeqs(0 .. NMaxX, n)]
    /\ narr = nargs.state
    /\ nresult = << >>

CallNormalise ==
    /\ npc = "ready"
    /\ nresult' = normalise(narr, nargs.xs)
    /\ npc' = "done"
    /\ UNCHANGED <<nargs, narr>>
    /\ UNCHANGED <<gvars, tvars, svars>>

----------------------------------------------------------------------------
(* scope_roots: src/src/tools.py *)

\* max_iters: int = 500
DefaultMaxIters == 500
\* The explicit values of max_iters are 0..SMaxIters.
SMaxIters == 2

\* np.linspace(-1, 1, 10), the starting points of tests/test_root_scope.py
TestX0 == {Norm(2 * k - 9, 9) : k \in 0 .. 9}

\* quadratic(x) = x**2 - 1 (tests/test_root_scope.py)
quadratic(x) == RSub(RMul(x, x), Rat(1))

\* scope_roots(func, x0, args, max_iters): the body is
\* raise NotImplementedError("This function is not implemented yet.")
scope_roots(func, x0, max_iters) == [raised |-> "NotImplementedError", value |-> << >>]

ScopeOff == spc = "off" /\ sargs = << >> /\ sresult = << >>

ScopeStart ==
    /\ spc = "ready"
    /\ sargs \in [func : {"quadratic"}, x0 : TestX0,
                  max_iters : (0 .. SMaxIters) \cup {DefaultMaxIters}]
    /\ sresult = << >>

CallScopeRoots ==
    /\ spc = "ready"
    /\ sresult' = scope_roots(sargs.func, sargs.x0, sargs.max_iters)
    /\ spc' = "done"
    /\ UNCHANGED sargs
    /\ UNCHANGED <<gvars, tvars, nvars>>

----------------------------------------------------------------------------
(* The toolkit: one of its entry points is exercised per behaviour. *)

Init ==
    \/ GridStart /\ TimeItOff /\ NormOff /\ ScopeOff
    \/ GridOff /\ TimeItStart /\ NormOff /\ ScopeOff
    \/ GridOff /\ TimeItOff /\ NormStart /\ ScopeOff
    \/ GridOff /\ TimeItOff /\ NormOff /\ ScopeStart

Next ==
    \/ GridInit
    \/ CallMasse
    \/ CallLaplacienne
    \/ CallPotentiel
    \/ TimeItWrapper
    \/ CallNormalise
    \/ CallScopeRoots

Spec == Init /\ [][Next]_vars

----------------------------------------------------------------------------
(* Properties of the Grid. *)

Constructed == gpc \in {"ready", "raised"}

\* Some adjacent pair has points[i+1] - points[i] < 0.
SomeDescent == \E i \in 1 .. Len(points) - 1 : points[i + 1] - points[i] < 0

\* C1, as stated: constructing a Grid fails with an OrderingError whenever some
\* adjacent pair satisfies points[i+1] - points[i] < 0, and succeeds, storing
\* the points, for every non-decreasing sequence (equal neighbours included).
C1_OrderingError ==
    Constructed =>
        IF SomeDescent THEN gpc = "raised" /\ gerr = "OrderingError"
        ELSE gpc = "ready" /\ gerr = "none" /\ self_points = points

\* C1, amended: the construction fails with Python's ValueError exactly when
\* some adjacent pair satisfies points[i+1] - points[i] < 0, and otherwise
\* succeeds and stores the points (equal neighbours included).
C1_ValueError ==
    Constructed =>
        IF SomeDescent THEN gpc = "raised" /\ gerr = "ValueError"
        ELSE gpc = "ready" /\ gerr = "none" /\ self_points = points

\* A grid with a descent, rejected.
C1_Witness == gpc = "raised" /\ gerr = "ValueError" /\ points = <<0, 2, 1>>

\* The matrix the latest call returned, and the size of its grid.
M == last.result.matrice
N == Len(self_points)
Sites == 0 .. N - 3
X(i) == self_points[i + 1]

\* A returned square matrix over the interior points that is symmetric and
\* zero off the three central diagonals.
SymTridiagonal ==
    /\ last.result.raised = "none"
    /\ DOMAIN M = Sites \X Sites
    /\ \A i, j \in Sites :
          /\ M[<<i, j>>] = M[<<j, i>>]
          /\ (i - j > 1 \/ j - i > 1) => M[<<i, j>>] = Zero

StrictlyIncreasing == \A i \in 1 .. N - 1 : self_points[i] < self_points[i + 1]

\* A 3 x 3 matrix from its rows.
Mat3(rows) == [ij \in (0 .. 2) \X (0 .. 2) |-> rows[ij[1] + 1][ij[2] + 1]]

\* C2: for every sorted grid of n >= 3 points, matrice_masse_interne returns
\* the (n-2)x(n-2) symmetric tridiagonal matrix whose entry for site s = i + 1
\* is (x_{s+1} - x_{s-1})/3 on the diagonal and (x_{s+1} - x_s)/6 between sites
\* s and s+1; for [0,1,2,3,4] it is [[2/3,1/6,0],[1/6,2/3,1/6],[0,1/6,2/3]].
C2_Masse ==
    (last.key = "masse" /\ N >= 3) =>
        /\ SymTridiagonal
        /\ \A i \in Sites : M[<<i, i>>] = Norm(X(i + 2) - X(i), 3)
        /\ \A i \in Sites : i + 1 \in Sites => M[<<i, i + 1>>] = Norm(X(i + 2) - X(i + 1), 6)
        /\ self_points = TestPoints =>
              M = Mat3(<< <<<<2, 3>>, <<1, 6>>, Zero>>,
                          <<<<1, 6>>, <<2, 3>>, <<1, 6>>>>,
                          <<Zero, <<1, 6>>, <<2, 3>>>> >>)

C2_Witness ==
    /\ last.key = "masse"
    /\ self_points = TestPoints
    /\ M[<<1, 1>>] = <<2, 3>>
    /\ M[<<1, 2>>] = <<1, 6>>

\* C3: for every strictly increasing grid of n >= 3 points,
\* matrice_laplacienne_interne returns the (n-2)x(n-2) symmetric tridiagonal
\* matrix whose diagonal entry for site s is 1/(x_{s-1}-x_s) + 1/(x_s-x_{s+1})
\* and whose entries between sites s and s+1 are 1/(x_{s+1}-x_s); diagonal
\* entries are strictly negative, off-diagonal ones strictly positive; for
\* [0,1,2,3,4] it is [[-2,1,0],[1,-2,1],[0,1,-2]].
C3_Laplacienne ==
    (last.key = "laplacienne" /\ N >= 3 /\ StrictlyIncreasing) =>
        /\ SymTridiagonal
        /\ \A i \in Sites :
              /\ M[<<i, i>>] = RAdd(Norm(1, X(i) - X(i + 1)), Norm(1, X(i + 1) - X(i + 2)))
              /\ RLess(M[<<i, i>>], Zero)
        /\ \A i \in Sites : i + 1 \in Sites =>
              /\ M[<<i, i + 1>>] = Norm(1, X(i + 2) - X(i + 1))
              /\ RLess(Zero, M[<<i, i + 1>>])
        /\ self_points = TestPoints =>
              M = Mat3(<< <<Rat(-2), Rat(1), Zero>>,
                          <<Rat(1), Rat(-2), Rat(1)>>,
                          <<Zero, Rat(1), Rat(-2)>> >>)

C3_Witness ==
    /\ last.key = "laplacienne"
    /\ self_points = TestPoints
    /\ M[<<0, 0>>] = Rat(-2)
    /\ M[<<0, 1>>] = Rat(1)

\* The potentials are c * x^2: c = 1 for x**2, c = 1/2 for sqr_potential.
Coef(p) == IF p = "x2" THEN <<1, 1>> ELSE <<1, 2>>

\* The exact integrals over [a, b], h = b - a, of c x^2 against the rising
\* ramp squared, the falling ramp squared, and the product of the two ramps
\* (x = a + h t):  h (a^2/3 + a h/2 + h^2/5),  h (a^2/3 + a h/6 + h^2/30),
\* h (a^2/6 + a h/6 + h^2/20).
IntRising(p, a, b) ==
    RMul(Coef(p), Norm((b - a) * (10 * a * a + 15 * a * (b - a) + 6 * (b - a) * (b - a)), 30))

IntFalling(p, a, b) ==
    RMul(Coef(p), Norm((b - a) * (10 * a * a + 5 * a * (b - a) + (b - a) * (b - a)), 30))

IntCross(p, a, b) ==
    RMul(Coef(p), Norm((b - a) * (10 * a * a + 10 * a * (b - a) + 3 * (b - a) * (b - a)), 60))

\* |a - b| <= 1e-3
Within(a, b) == ~RLess(<<1, 1000>>, RAbs(RSub(a, b)))

\* C4: for every strictly increasing grid of n >= 3 points and every
\* potential, matrice_potentiel returns an (n-2)x(n-2) symmetric tridiagonal
\* matrix whose diagonal entry for site s is the integral of
\* potential * pente_pos(., s)^2 over [x_{s-1}, x_s] plus that of
\* potential * pente_neg(., s)^2 over [x_s, x_{s+1}], and whose entries between
\* sites s and s+1 are the integral of potential * pente_pos(., s+1) *
\* pente_neg(., s) over [x_s, x_{s+1}]; for [0,1,2,3,4] and x^2 it is
\* [[0.733,0.383,0],[0.383,2.733,1.05],[0,1.05,6.067]] within 1e-3.
C4_Potentiel ==
    (last.key \in Potentials /\ N >= 3 /\ StrictlyIncreasing) =>
        /\ SymTridiagonal
        /\ \A i \in Sites :
              M[<<i, i>>] = RAdd(IntRising(last.key, X(i), X(i + 1)),
                                 IntFalling(last.key, X(i + 1), X(i + 2)))
        /\ \A i \in Sites : i + 1 \in Sites =>
              M[<<i, i + 1>>] = IntCross(last.key, X(i + 1), X(i + 2))
        /\ (self_points = TestPoints /\ last.key = "x2") =>
              LET expected == Mat3(<< <<<<733, 1000>>, <<383, 1000>>, Zero>>,
                                      <<<<383, 1000>>, <<2733, 1000>>, <<105, 100>>>>,
                                      <<Zero, <<105, 100>>, <<6067, 1000>>>> >>)
              IN  \A ij \in DOMAIN expected : Within(M[ij], expected[ij])

C4_Witness ==
    /\ last.key = "x2"
    /\ self_points = TestPoints
    /\ M[<<0, 0>>] = <<11, 15>>
    /\ M[<<0, 1>>] = <<23, 60>>

\* C5: after any sequence of calls to the three methods on one Grid, the
\* grid's points are those given at construction and the latest call returned
\* exactly what the first call of that method with that argument returned.
C5_NoHiddenState ==
    gpc = "ready" =>
        /\ self_points = points
        /\ last.key # "none" => last.result = first[last.key]

\* A repeated call of matrice_potentiel(x**2), made after every other method
\* and argument has been called on the same grid.
C5_Witness ==
    /\ last.key = "x2"
    /\ last.again
    /\ \A k \in Keys : first[k] # NoResult
    /\ N >= 3

\* C10: for every grid the construction accepts with at least 3 points (equal
\* neighbours included), matrice_laplacienne_interne never divides by zero:
\* no step of the assembly evaluates 1/(x_i - x_{i+1}) with x_i = x_{i+1}.
C10_NoDivisionByZero ==
    (last.key = "laplacienne" /\ N >= 3) =>
        /\ "divide by zero" \notin last.result.warnings
        /\ \A ij \in DOMAIN M : IsFinite(M[ij])

----------------------------------------------------------------------------
(* Properties of the root scoper. *)

\* The scan step of scope_roots' documentation, delta = 1e-3
Delta == <<1, 1000>>

\* The sign of func at the k-th scan point from x0 (k < 0: scanning downwards)
SignAt(x0, k) == Sign(quadratic(RAdd(x0, RMul(Rat(k), Delta)))[1])

\* No two consecutive scan points within max_iters steps of x0, in either
\* direction, differ in the sign of func.
NoSignChange(x0, max_iters) ==
    \A k \in (-max_iters) .. (max_iters - 1) : SignAt(x0, k) = SignAt(x0, k + 1)

\* C6: scope_roots(func, x0, args, max_iters) ends within max_iters scan steps,
\* and when no sign change of func is detected between consecutive scan points
\* within those steps it returns the pair (x0, False) instead of raising.
C6_NotFoundIsAValue ==
    (spc = "done" /\ NoSignChange(sargs.x0, sargs.max_iters)) =>
        /\ sresult.raised = "none"
        /\ sresult.value = <<sargs.x0, FALSE>>

\* C7: for f(x) = x^2 - 1 and every x0 in [-1, 1], the first element of
\* scope_roots(f, x0) is a point x1 with sign(f(x1)) # sign(f(x0)).
C7_RootAcrossSignChange ==
    (/\ spc = "done"
     /\ sargs.func = "quadratic"
     /\ sargs.max_iters = DefaultMaxIters
     /\ ~RLess(sargs.x0, Rat(-1))
     /\ ~RLess(Rat(1), sargs.x0)) =>
        /\ sresult.raised = "none"
        /\ Sign(quadratic(sresult.value[1])[1]) # Sign(quadratic(sargs.x0)[1])

----------------------------------------------------------------------------
(* Properties of time_it. *)

\* C8: the wrapped function calls func exactly once, with the positional and
\* keyword arguments it was given, returns exactly the value func returned,
\* and lets the error func raised through unchanged.
C8_Transparent ==
    tpc = "done" =>
        /\ Len(tlog) = 1
        /\ tlog[1].args = tcall.args
        /\ tlog[1].kwargs = tcall.kwargs
        /\ tout.kind = tlog[1].outcome.kind
        /\ tout.kind = "return" => tout.value = tlog[1].outcome.value
        /\ tout.kind = "raise" => tout.error = tlog[1].outcome.error

\* The decorated solve_shrodinger_using_fem called with its three arguments:
\* its NotImplementedError reaches the caller.
C8_Witness ==
    /\ tpc = "done"
    /\ tcall.func = "solve_shrodinger_using_fem"
    /\ Len(tcall.args) = 3
    /\ tout.kind = "raise"
    /\ tout.error = "NotImplementedError"

----------------------------------------------------------------------------
(* Properties of normalise. *)

\* The trapezoidal integral over xs of the values whose squares are sq:
\* sum_i (sq[i] + sq[i+1])/2 * (xs[i+1] - xs[i])
RECURSIVE Trapz(_, _, _)
Trapz(sq, xs, i) ==
    IF i >= Len(xs) THEN Zero
    ELSE RAdd(Norm((sq[i][1] * sq[i + 1][2] + sq[i + 1][1] * sq[i][2]) * (xs[i + 1] - xs[i]),
                   2 * sq[i][2] * sq[i + 1][2]),
              Trapz(sq, xs, i + 1))

\* A, the trapezoidal integral of state^2 over xs
AreaOfArgs == Trapz([i \in 1 .. Len(nargs.state) |-> Rat(nargs.state[i] * nargs.state[i])],
                    nargs.xs, 1)

\* C9: when the trapezoidal integral A of state^2 over xs is strictly
\* positive, normalise(state, xs) returns state divided by sqrt(A), the
\* trapezoidal integral of the squared result over xs is 1, and the input
\* state is left unmodified.
C9_Normalised ==
    (npc = "done" /\ RLess(Zero, AreaOfArgs)) =>
        /\ DOMAIN nresult = DOMAIN nargs.state
        /\ \A i \in DOMAIN nresult :
              /\ nresult[i].sign = Sign(nargs.state[i])
              /\ nresult[i].sq = RDiv(Rat(nargs.state[i] * nargs.state[i]), AreaOfArgs)
        /\ Trapz([i \in DOMAIN nresult |-> nresult[i].sq], nargs.xs, 1) = Rat(1)
        /\ narr = nargs.state

C9_Witness ==
    /\ npc = "done"
    /\ nargs.state = <<1, -1, 0>>
    /\ nargs.xs = <<0, 1, 2>>
    /\ nresult[2] = SqrtVal(-1, <<2, 3>>)

====
